---- MODULE Spec2Model ----
(***************************************************************************)
(* The MapboxMCP JSON-RPC client of the three Python examples              *)
(* (crewai_example.py, pydantic_ai_example.py, smolagents_example.py).     *)
(* The class is the same, line for line, in the three files; line numbers  *)
(* in the comments are those of crewai_example.py.                         *)
(*                                                                         *)
(* Python and JSON values are tagged records:                              *)
(*   [t |-> "None"], [t |-> "str", s |-> ...], [t |-> "int", n |-> ...],   *)
(*   [t |-> "list", a |-> <<...>>], [t |-> "tuple", a |-> <<...>>],        *)
(*   [t |-> "dict", d |-> {[k |-> key, v |-> value], ...}]                 *)
(***************************************************************************)
EXTENDS Integers, Sequences, FiniteSets, TLC

VARIABLES
    environ,      \* value of os.environ's MAPBOX_ACCESS_TOKEN (PNone when unset)
    modulePc,     \* "import": before `mcp = MapboxMCP()`; "ready"; "aborted"
    mcp,          \* the module-level client: PNone, or [url, headers]
    ctor,         \* what the constructor was given: [token, env] (PNone before)
    importError,  \* the exception that ended the import, if any
    sent,         \* every requests.post(...) made so far, in order
    pc,           \* per caller: "idle" or "posted" (inside requests.post)
    inflight,     \* per caller: the request it is waiting on
    last,         \* the last finished call_tool: [idx, resp, outcome]
    invocations,  \* number of call_tool invocations started
    running,      \* per caller: the tool wrapper waiting on call_tool, [w, args]
    returned      \* the last finished tool wrapper: [idx, w, outcome]

vars == <<environ, modulePc, mcp, ctor, importError, sent, pc, inflight, last, invocations,
          running, returned>>

(***************************************************************************)
(* Bounds                                                                  *)
(***************************************************************************)
MaxCalls == 2

MaxWrapperCalls == 1

Callers == {"c1", "c2"}

(***************************************************************************)
(* Python values                                                           *)
(***************************************************************************)
PNone == [t |-> "None"]

PStr(s) == [t |-> "str", s |-> s]

PInt(n) == [t |-> "int", n |-> n]

PList(a) == [t |-> "list", a |-> a]

PTuple(a) == [t |-> "tuple", a |-> a]

PDict(d) == [t |-> "dict", d |-> d]

KV(k, v) == [k |-> k, v |-> v]

Ok(v) == [ok |-> TRUE, v |-> v]

Err(exc, msg) == [ok |-> FALSE, exc |-> exc, msg |-> msg]

\* Python truthiness of the values a token can take (None and '' are falsy).
Truthy(v) ==
    CASE v.t = "None" -> FALSE
      [] v.t = "str" -> v.s # ""
      [] v.t = "int" -> v.n # 0
      [] v.t \in {"list", "tuple"} -> Len(v.a) > 0
      [] v.t = "dict" -> v.d # {}

\* `a or b`
PyOr(a, b) == IF Truthy(a) THEN a ELSE b

\* str(v) as an f-string formats it
PyStr(v) ==
    CASE v.t = "str" -> v.s
      [] v.t = "None" -> "None"
      [] v.t = "int" -> ToString(v.n)
      [] OTHER -> "<" \o v.t \o ">"

IsSubstring(sub, s) ==
    \E i \in 1..(Len(s) - Len(sub) + 1) : SubSeq(s, i, i + Len(sub) - 1) = sub

HasKey(x, k) == \E e \in x.d : e.k = k

Lookup(x, k) == (CHOOSE e \in x.d : e.k = k).v

\* `k in x` for a str k
PyIn(k, x) ==
    CASE x.t = "dict" -> Ok(HasKey(x, k))
      [] x.t \in {"list", "tuple"} -> Ok(\E i \in 1..Len(x.a) : x.a[i] = PStr(k))
      [] x.t = "str" -> Ok(IsSubstring(k, x.s))
      [] OTHER -> Err("TypeError", "argument of type '" \o x.t \o "' is not iterable")

\* x[k] for a str or int k (ints index from 0)
GetItem(x, k) ==
    CASE x.t = "dict" ->
            IF k.t = "str" /\ HasKey(x, k.s) THEN Ok(Lookup(x, k.s))
            ELSE Err("KeyError", PyStr(k))
      [] x.t \in {"list", "tuple"} ->
            IF k.t # "int" THEN Err("TypeError", "list indices must be integers")
            ELSE IF k.n + 1 \in 1..Len(x.a) THEN Ok(x.a[k.n + 1])
            ELSE Err("IndexError", "list index out of range")
      [] x.t = "str" ->
            IF k.t # "int" THEN Err("TypeError", "string indices must be integers")
            ELSE IF k.n + 1 \in 1..Len(x.s) THEN Ok(PStr(SubSeq(x.s, k.n + 1, k.n + 1)))
            ELSE Err("IndexError", "string index out of range")
      [] OTHER -> Err("TypeError", "'" \o x.t \o "' object is not subscriptable")

(***************************************************************************)
(* Serialisation: requests.post(json=...) sends json.dumps(request), and   *)
(* response.json() parses the body.  A JSON document is written as the     *)
(* value a parser gives back: json.dumps writes a tuple as an array, so a  *)
(* tuple comes back as a list.                                             *)
(***************************************************************************)
RECURSIVE JsonDumps(_)
JsonDumps(v) ==
    CASE v.t \in {"list", "tuple"} -> PList([i \in 1..Len(v.a) |-> JsonDumps(v.a[i])])
      [] v.t = "dict" -> PDict({KV(e.k, JsonDumps(e.v)) : e \in v.d})
      [] OTHER -> v

\* response.json(): the parsed body, or JSONDecodeError when it is not JSON
ResponseJson(body) ==
    IF body.json THEN Ok(body.v)
    ELSE Err("JSONDecodeError", "Expecting value")

\* mutant: only a 5xx status raises
RaiseForStatusServerOnly(status) == 500 <= status /\ status < 600

\* response.raise_for_status(): HTTPError for a 4xx or 5xx status, else nothing
RaiseForStatus(status) == 400 <= status /\ status < 600

(***************************************************************************)
(* MapboxMCP.__init__                                                      *)
(***************************************************************************)
URL == "https://mcp.mapbox.com/mcp"

\* mutant: the environment variable wins over the argument
ResolveTokenEnvFirst(token, env) == PyOr(env, token)

\* line 31: token = token or os.getenv('MAPBOX_ACCESS_TOKEN')
ResolveToken(token, env) == PyOr(token, env)

\* mutant: `if token is None`
TokenMissingNoneOnly(token) == token.t = "None"

\* line 32: if not token
TokenMissing(token) == ~Truthy(token)

\* mutant: the constructor raises the exception call_tool raises
CtorErrorRuntime == Err("RuntimeError", "MAPBOX_ACCESS_TOKEN is required")

\* line 33
CtorError == Err("ValueError", "MAPBOX_ACCESS_TOKEN is required")

\* lines 35-38
MakeHeaders(token) ==
    PDict({KV("Content-Type", PStr("application/json")),
           KV("Authorization", PStr("Bearer " \o PyStr(token)))})

(***************************************************************************)
(* MapboxMCP.call_tool                                                     *)
(***************************************************************************)
\* mutant: the tool name sent as the JSON-RPC method, the arguments as params
BuildRequestNameAsMethod(tool_name, params) ==
    PDict({KV("jsonrpc", PStr("2.0")),
           KV("id", PInt(1)),
           KV("method", PStr(tool_name)),
           KV("params", params)})

\* mutant: a fresh id for every call
BuildRequestCountingId(tool_name, params) ==
    PDict({KV("jsonrpc", PStr("2.0")),
           KV("id", PInt(invocations + 1)),
           KV("method", PStr("tools/call")),
           KV("params", PDict({KV("name", PStr(tool_name)),
                               KV("arguments", params)}))})

\* lines 42-50
BuildRequest(tool_name, params) ==
    PDict({KV("jsonrpc", PStr("2.0")),
           KV("id", PInt(1)),
           KV("method", PStr("tools/call")),
           KV("params", PDict({KV("name", PStr(tool_name)),
                               KV("arguments", params)}))})

\* mutant: the endpoint chosen per call
PostedRequestPerCall(self, request) ==
    [url |-> self.url \o "/" \o PyStr(Lookup(request, "method")),
     headers |-> self.headers, json |-> JsonDumps(request)]

\* lines 52-56: what requests.post puts on the wire
PostedRequest(self, request) ==
    [url |-> self.url, headers |-> self.headers, json |-> JsonDumps(request)]

\* mutant: the message left out of the description
ErrorDescriptionFixed(message) == "MCP error"

\* line 61: f"MCP error: {data['error']['message']}"
ErrorDescription(message) == "MCP error: " \o PyStr(message)

\* lines 60-61: the raise under `if 'error' in data`
RaiseRemoteError(data) ==
    LET e == GetItem(data, PStr("error")) IN
    IF ~e.ok THEN e
    ELSE LET m == GetItem(e.v, PStr("message")) IN
         IF ~m.ok THEN m
         ELSE Err("RuntimeError", ErrorDescription(m.v))

\* mutant: the last item's text, content[-1]
ExtractLastText(data) ==
    LET r == GetItem(data, PStr("result")) IN
    IF ~r.ok THEN r
    ELSE LET c == GetItem(r.v, PStr("content")) IN
         IF ~c.ok THEN c
         ELSE LET n == IF c.v.t = "list" THEN Len(c.v.a) - 1 ELSE 0
                  i == GetItem(c.v, PInt(n)) IN
              IF ~i.ok THEN i
              ELSE GetItem(i.v, PStr("text"))

\* mutant: data.get('result', {}).get('content', [{}])[0].get('text')
ExtractTextOrNone(data) ==
    IF data.t # "dict" THEN Err("AttributeError", "no attribute 'get'")
    ELSE LET r == IF HasKey(data, "result") THEN Lookup(data, "result") ELSE PDict({}) IN
         IF r.t # "dict" THEN Err("AttributeError", "no attribute 'get'")
         ELSE LET c == IF HasKey(r, "content") THEN Lookup(r, "content")
                       ELSE PList(<<PDict({})>>)
                  i == GetItem(c, PInt(0)) IN
              IF ~i.ok THEN i
              ELSE IF i.v.t # "dict" THEN Err("AttributeError", "no attribute 'get'")
              ELSE Ok(IF HasKey(i.v, "text") THEN Lookup(i.v, "text") ELSE PNone)

\* line 63: data['result']['content'][0]['text']
ExtractText(data) ==
    LET r == GetItem(data, PStr("result")) IN
    IF ~r.ok THEN r
    ELSE LET c == GetItem(r.v, PStr("content")) IN
         IF ~c.ok THEN c
         ELSE LET i == GetItem(c.v, PInt(0)) IN
              IF ~i.ok THEN i
              ELSE GetItem(i.v, PStr("text"))

\* mutant: a readable result is returned before the error field is looked at
HandleResponseResultFirst(resp) ==
    IF RaiseForStatus(resp.status) THEN Err("HTTPError", ToString(resp.status))
    ELSE LET data == ResponseJson(resp.body) IN
         IF ~data.ok THEN data
         ELSE LET text == ExtractText(data.v)
                  has == PyIn("error", data.v) IN
              IF text.ok THEN text
              ELSE IF ~has.ok THEN has
              ELSE IF has.v THEN RaiseRemoteError(data.v)
              ELSE text

\* lines 57-63: what call_tool does with the response requests.post returned
HandleResponse(resp) ==
    IF RaiseForStatus(resp.status) THEN Err("HTTPError", ToString(resp.status))
    ELSE LET data == ResponseJson(resp.body) IN
         IF ~data.ok THEN data
         ELSE LET has == PyIn("error", data.v) IN
              IF ~has.ok THEN has
              ELSE IF has.v THEN RaiseRemoteError(data.v)
              ELSE ExtractText(data.v)

\* a call's outcome: the value returned, or the exception raised
Outcome(r) ==
    IF r.ok THEN [kind |-> "return", value |-> r.v]
    ELSE [kind |-> "raise", exc |-> r.exc, msg |-> r.msg]

(***************************************************************************)
(* Inputs: the environment, the constructor's argument, the arguments of   *)
(* call_tool and the responses the remote side can give.                   *)
(***************************************************************************)
EnvValues == {PNone, PStr(""), PStr("env-token")}

Tokens == {PNone, PStr(""), PStr("arg-token")}

ToolNames == {"get_directions", "calculate_distance"}

Coord == <<PInt(-74), PInt(40)>>

Params ==
    { PDict({}),
      PDict({KV("from", PList(Coord)), KV("units", PStr("miles"))}),
      PDict({KV("origin", PTuple(Coord))}) }

TextItem(v) == PDict({KV("text", v)})

ResultBody(items) == PDict({KV("result", PDict({KV("content", PList(items))}))})

ErrorField(e) == KV("error", e)

ErrorObject(msg) == PDict({KV("message", PStr(msg))})

JsonBodies ==
    { PDict({}),
      PDict({ErrorField(ErrorObject("unknown tool"))}),
      PDict({ErrorField(ErrorObject("unknown tool")),
             KV("result", PDict({KV("content", PList(<<TextItem(PStr("42 miles"))>>))}))}),
      PDict({ErrorField(PDict({}))}),
      PDict({ErrorField(PStr("unknown tool"))}),
      PDict({ErrorField(PNone)}),
      PDict({ErrorField(PNone),
             KV("result", PDict({KV("content", PList(<<TextItem(PStr("42 miles"))>>))}))}),
      PDict({KV("result", PNone)}),
      PDict({KV("result", PDict({}))}),
      ResultBody(<<>>),
      ResultBody(<<PDict({})>>),
      ResultBody(<<TextItem(PStr("42 miles"))>>),
      ResultBody(<<TextItem(PStr("42 miles")), TextItem(PStr("3.1"))>>),
      ResultBody(<<TextItem(PStr("3.1")), TextItem(PStr("42 miles"))>>),
      ResultBody(<<TextItem(PStr("3.1")), PDict({})>>),
      ResultBody(<<TextItem(PInt(42))>>),
      PList(<<>>),
      PStr("internal error"),
      PNone }

Bodies == {[json |-> TRUE, v |-> b] : b \in JsonBodies} \cup {[json |-> FALSE, v |-> PNone]}

Statuses == {200, 204, 304, 404, 500}

Responses == [conn : {TRUE}, status : Statuses, body : Bodies]

NoResponse == [conn |-> FALSE]

\* one response for each way call_tool can end
SampleResponses ==
    { r \in Responses :
        \/ r.status = 200 /\ r.body.json
              /\ r.body.v \in { ResultBody(<<TextItem(PStr("42 miles"))>>),
                                PDict({ErrorField(ErrorObject("unknown tool"))}),
                                PDict({}),
                                ResultBody(<<>>),
                                PNone }
        \/ r.status = 200 /\ ~r.body.json
        \/ r.status \in {304, 500} /\ r.body.json
              /\ r.body.v = ResultBody(<<TextItem(PStr("42 miles"))>>) }

SampleParams == {PDict({KV("from", PList(Coord)), KV("units", PStr("miles"))})}

SampleTools == {"calculate_distance"}

NoCall == [idx |-> 0, resp |-> NoResponse, outcome |-> [kind |-> "none"]]

(***************************************************************************)
(* The tool wrappers: DirectionsTool._run, SearchPOITool._run,             *)
(* CalculateDistanceTool._run, IsochroneTool._run of crewai_example.py and *)
(* get_directions, search_poi, calculate_distance, get_isochrone of        *)
(* pydantic_ai_example.py and smolagents_example.py.  A wrapper is         *)
(* [file, name]; its args are a record of its parameters.                  *)
(***************************************************************************)
WrapperFiles == {"crewai", "pydantic_ai", "smolagents"}

WrapperNames == {"get_directions", "search_poi", "calculate_distance", "get_isochrone"}

Wrappers == [file : WrapperFiles, name : WrapperNames]

Coord2 == <<PInt(-71), PInt(42)>>

\* pydantic_ai declares coordinates as Tuple[float, float], the others as list
CoordArg(w, xy) == IF w.file = "pydantic_ai" THEN PTuple(xy) ELSE PList(xy)

WrapperArgs(w) ==
    CASE w.name = "get_directions" ->
            {[origin |-> CoordArg(w, Coord), destination |-> CoordArg(w, Coord2)]}
      [] w.name = "search_poi" ->
            {[category |-> PStr("coffee"), location |-> CoordArg(w, Coord)]}
      [] w.name = "calculate_distance" ->
            {[from_coords |-> CoordArg(w, Coord), to_coords |-> CoordArg(w, Coord2),
              units |-> PStr("miles")]}
      [] w.name = "get_isochrone" ->
            {[location |-> CoordArg(w, Coord), minutes |-> PInt(10),
              profile |-> PStr(IF w.file = "crewai" THEN "driving"
                               ELSE IF w.file = "pydantic_ai" THEN "walking"
                               ELSE "mapbox/walking")]}

\* list(x) of pydantic_ai_example.py; the other files pass the value on
ListOf(w, x) == IF w.file = "pydantic_ai" THEN PList(x.a) ELSE x

\* the tool name each wrapper passes to mcp.call_tool
WrapperToolName(w) ==
    IF w.file = "smolagents"
    THEN CASE w.name = "get_directions" -> "directions_tool"
           [] w.name = "search_poi" -> "category_search_tool"
           [] w.name = "calculate_distance" -> "distance_tool"
           [] w.name = "get_isochrone" -> "isochrone_tool"
    ELSE CASE w.name = "get_directions" -> "get_directions"
           [] w.name = "search_poi" -> "category_search"
           [] w.name = "calculate_distance" -> "calculate_distance"
           [] w.name = "get_isochrone" -> "get_isochrone"

\* the params each wrapper passes to mcp.call_tool
WrapperParams(w, args) ==
    CASE w.name = "get_directions" ->
            PDict({KV("origin", ListOf(w, args.origin)),
                   KV("destination", ListOf(w, args.destination)),
                   KV("profile", PStr(IF w.file = "smolagents" THEN "mapbox/driving-traffic"
                                      ELSE "driving-traffic"))})
      [] w.name = "search_poi" ->
            PDict({KV("category", args.category),
                   KV("proximity", ListOf(w, args.location))})
      [] w.name = "calculate_distance" ->
            PDict({KV("from", ListOf(w, args.from_coords)),
                   KV("to", ListOf(w, args.to_coords)),
                   KV("units", args.units)})
      [] w.name = "get_isochrone" ->
            PDict({KV("coordinates", ListOf(w, args.location)),
                   KV("contours_minutes", PList(<<args.minutes>>)),
                   KV("profile", args.profile)})

\* what the wrapper returns once call_tool has returned result
WrapperReturn(w, args, result) ==
    IF w.file = "crewai" /\ w.name = "get_directions"
    THEN PStr("Directions: " \o PyStr(result))
    ELSE IF w.file = "crewai" /\ w.name = "calculate_distance"
    THEN PStr(PyStr(result) \o " " \o PyStr(args.units))
    ELSE result

\* mutant: the wrapper catches the exception and returns a message
WrapperFinishCatching(w, args, r) ==
    IF ~r.ok THEN Ok(PStr("Error: " \o r.msg))
    ELSE Ok(WrapperReturn(w, args, r.v))

\* the wrapper's end, r being how mcp.call_tool ended: no wrapper has a try,
\* so an exception leaves the wrapper as it left call_tool
WrapperFinish(w, args, r) ==
    IF ~r.ok THEN r
    ELSE Ok(WrapperReturn(w, args, r.v))

NoWrapper == [w |-> [file |-> "", name |-> ""], args |-> PNone]

NoReturn == [idx |-> 0, w |-> NoWrapper.w, outcome |-> [kind |-> "none"]]

\* what the end of call_tool, r, means for the caller's wrapper, if it has one
Returned(c, r) ==
    IF running[c] = NoWrapper THEN returned
    ELSE [idx |-> inflight[c], w |-> running[c].w,
          outcome |-> Outcome(WrapperFinish(running[c].w, running[c].args, r))]

(***************************************************************************)
(* The state machine                                                       *)
(***************************************************************************)
\* The module after line 23 (load_dotenv()), before line 67.
Init ==
    /\ environ \in EnvValues
    /\ modulePc = "import"
    /\ mcp = PNone
    /\ ctor = PNone
    /\ importError = [kind |-> "none"]
    /\ sent = <<>>
    /\ pc = [c \in Callers |-> "idle"]
    /\ inflight = [c \in Callers |-> 0]
    /\ last = NoCall
    /\ invocations = 0
    /\ running = [c \in Callers |-> NoWrapper]
    /\ returned = NoReturn

\* line 67, `mcp = MapboxMCP()`, with __init__ (lines 29-38) taking any token
Construct(token) ==
    /\ modulePc = "import"
    /\ ctor' = [token |-> token, env |-> environ]
    /\ LET tok == ResolveToken(token, environ) IN
       IF TokenMissing(tok)
       THEN /\ importError' = Outcome(CtorError)
            /\ modulePc' = "aborted"
            /\ mcp' = mcp
       ELSE /\ mcp' = [url |-> URL, headers |-> MakeHeaders(tok)]
            /\ modulePc' = "ready"
            /\ importError' = importError
    /\ UNCHANGED <<environ, sent, pc, inflight, last, invocations, running, returned>>

\* call_tool up to and including the requests.post(...) call (lines 40-56)
CallToolPost(c, tool_name, params) ==
    /\ modulePc = "ready"
    /\ pc[c] = "idle"
    /\ invocations < MaxCalls
    /\ invocations' = invocations + 1
    /\ sent' = Append(sent, [wire |-> PostedRequest(mcp, BuildRequest(tool_name, params)),
                             tool_name |-> tool_name, params |-> params])
    /\ inflight' = [inflight EXCEPT ![c] = Len(sent) + 1]
    /\ pc' = [pc EXCEPT ![c] = "posted"]
    /\ UNCHANGED <<environ, modulePc, mcp, ctor, importError, last, running, returned>>

\* a tool wrapper is called and calls mcp.call_tool, up to requests.post
WrapperCall(c, w, args) ==
    /\ modulePc = "ready"
    /\ pc[c] = "idle"
    /\ invocations < MaxWrapperCalls
    /\ invocations' = invocations + 1
    /\ running' = [running EXCEPT ![c] = [w |-> w, args |-> args]]
    /\ LET tool_name == WrapperToolName(w)
           params == WrapperParams(w, args) IN
       sent' = Append(sent, [wire |-> PostedRequest(mcp, BuildRequest(tool_name, params)),
                             tool_name |-> tool_name, params |-> params])
    /\ inflight' = [inflight EXCEPT ![c] = Len(sent) + 1]
    /\ pc' = [pc EXCEPT ![c] = "posted"]
    /\ UNCHANGED <<environ, modulePc, mcp, ctor, importError, last, returned>>

\* requests.post raises: the connection could not be made (lines 52-56)
CallToolConnectionError(c) ==
    /\ pc[c] = "posted"
    /\ last' = [idx |-> inflight[c], resp |-> NoResponse,
                outcome |-> Outcome(Err("ConnectionError", "connection failed"))]
    /\ returned' = Returned(c, Err("ConnectionError", "connection failed"))
    /\ running' = [running EXCEPT ![c] = NoWrapper]
    /\ pc' = [pc EXCEPT ![c] = "idle"]
    /\ inflight' = [inflight EXCEPT ![c] = 0]
    /\ UNCHANGED <<environ, modulePc, mcp, ctor, importError, sent, invocations>>

\* mutant: a failed status is posted again
CallToolResponseRetry(c, resp) ==
    /\ pc[c] = "posted"
    /\ last' = [idx |-> inflight[c], resp |-> resp,
                outcome |-> Outcome(HandleResponse(resp))]
    /\ returned' = Returned(c, HandleResponse(resp))
    /\ running' = [running EXCEPT ![c] = NoWrapper]
    /\ sent' = IF RaiseForStatus(resp.status) THEN Append(sent, sent[inflight[c]]) ELSE sent
    /\ pc' = [pc EXCEPT ![c] = "idle"]
    /\ inflight' = [inflight EXCEPT ![c] = 0]
    /\ UNCHANGED <<environ, modulePc, mcp, ctor, importError, invocations>>

\* requests.post returns a response and call_tool finishes (lines 52-63)
CallToolResponse(c, resp) ==
    /\ pc[c] = "posted"
    /\ last' = [idx |-> inflight[c], resp |-> resp,
                outcome |-> Outcome(HandleResponse(resp))]
    /\ returned' = Returned(c, HandleResponse(resp))
    /\ running' = [running EXCEPT ![c] = NoWrapper]
    /\ pc' = [pc EXCEPT ![c] = "idle"]
    /\ inflight' = [inflight EXCEPT ![c] = 0]
    /\ UNCHANGED <<environ, modulePc, mcp, ctor, importError, sent, invocations>>

Next ==
    \/ \E token \in Tokens : Construct(token)
    \/ \E c \in Callers, tool_name \in ToolNames, params \in Params :
          CallToolPost(c, tool_name, params)
    \/ \E c \in Callers : CallToolConnectionError(c)
    \/ \E c \in Callers, resp \in SampleResponses : CallToolResponse(c, resp)

Spec == Init /\ [][Next]_vars

\* The same machine with every response and one request.
NextResponses ==
    \/ \E token \in Tokens : Construct(token)
    \/ \E c \in Callers, tool_name \in SampleTools, params \in SampleParams :
          CallToolPost(c, tool_name, params)
    \/ \E c \in Callers : CallToolConnectionError(c)
    \/ \E c \in Callers, resp \in Responses : CallToolResponse(c, resp)

SpecResponses == Init /\ [][NextResponses]_vars

\* The same machine with every call made through a tool wrapper.
NextWrappers ==
    \/ \E token \in Tokens : Construct(token)
    \/ \E c \in Callers, w \in Wrappers : \E args \in WrapperArgs(w) : WrapperCall(c, w, args)
    \/ \E c \in Callers : CallToolConnectionError(c)
    \/ \E c \in Callers, resp \in SampleResponses : CallToolResponse(c, resp)

SpecWrappers == Init /\ [][NextWrappers]_vars

(***************************************************************************)
(* Vocabulary of the properties.  The specification names four kinds of    *)
(* error; the code raises Python's and requests' exceptions.               *)
(***************************************************************************)
ConfigurationError == {"ValueError"}

TransportError == {"HTTPError", "ConnectionError"}

RemoteToolError == {"RuntimeError"}

MalformedResponseError == {"KeyError", "IndexError", "TypeError", "JSONDecodeError"}

\* a JSON object with the field k, and that field's value
Has(b, k) == b.t = "dict" /\ \E e \in b.d : e.k = k

At(b, k) == (CHOOSE e \in b.d : e.k = k).v

Fields(b) == {e.k : e \in b.d}

\* a value JSON can carry as it is: no tuple anywhere inside
RECURSIVE IsJsonValue(_)
IsJsonValue(v) ==
    CASE v.t = "tuple" -> FALSE
      [] v.t = "list" -> \A i \in 1..Len(v.a) : IsJsonValue(v.a[i])
      [] v.t = "dict" -> \A e \in v.d : IsJsonValue(e.v)
      [] OTHER -> TRUE

Finished == last.outcome.kind # "none"

Answered == Finished /\ last.resp.conn

SuccessStatus == Answered /\ last.resp.status \in 200..299

BodyIsJson == Answered /\ last.resp.body.json

Data == last.resp.body.v

HasErrorField == BodyIsJson /\ Has(Data, "error")

\* the error field is an object that holds a message
HasErrorMessage == HasErrorField /\ Has(At(Data, "error"), "message")

\* result.content[0].text is there to be read
HasResultText ==
    /\ BodyIsJson
    /\ Has(Data, "result")
    /\ Has(At(Data, "result"), "content")
    /\ At(At(Data, "result"), "content").t = "list"
    /\ Len(At(At(Data, "result"), "content").a) >= 1
    /\ Has(At(At(Data, "result"), "content").a[1], "text")

Content == At(At(Data, "result"), "content").a

Raised(kinds) == last.outcome.kind = "raise" /\ last.outcome.exc \in kinds

(***************************************************************************)
(* C1.  Constructing the client with no token while MAPBOX_ACCESS_TOKEN is *)
(* unset or empty fails in the constructor with the configuration error    *)
(* (ValueError), no client exists afterwards, and no request has been      *)
(* posted up to and including that failure.                                *)
(***************************************************************************)
C1_NoCredentialFailsEagerly ==
    (modulePc # "import" /\ ctor.token = PNone /\ ctor.env \in {PNone, PStr("")})
        => /\ modulePc = "aborted"
           /\ importError.kind = "raise"
           /\ importError.exc \in ConfigurationError
           /\ mcp = PNone
           /\ sent = <<>>
           /\ invocations = 0

C1_Witness ==
    /\ modulePc = "aborted"
    /\ ctor.token = PNone
    /\ ctor.env = PStr("")
    /\ importError.exc = "ValueError"

(***************************************************************************)
(* C2.  Every request body posted has exactly the fields jsonrpc, id,      *)
(* method and params, with jsonrpc = "2.0", method = "tools/call",         *)
(* params = {name, arguments}, params.name the tool name passed in, and,   *)
(* when the arguments passed in are a JSON value, params.arguments equal   *)
(* to them.                                                                *)
(***************************************************************************)
C2_RequestBodyShape ==
    \A i \in 1..Len(sent) :
        LET body == sent[i].wire.json IN
        /\ body.t = "dict"
        /\ Fields(body) = {"jsonrpc", "id", "method", "params"}
        /\ At(body, "jsonrpc") = PStr("2.0")
        /\ At(body, "method") = PStr("tools/call")
        /\ At(body, "params").t = "dict"
        /\ Fields(At(body, "params")) = {"name", "arguments"}
        /\ At(At(body, "params"), "name") = PStr(sent[i].tool_name)
        /\ IsJsonValue(sent[i].params)
              => At(At(body, "params"), "arguments") = sent[i].params

C2_Witness ==
    \E i \in 1..Len(sent) :
        /\ sent[i].tool_name = "get_directions"
        /\ sent[i].params = PDict({KV("from", PList(Coord)), KV("units", PStr("miles"))})
        /\ At(At(sent[i].wire.json, "params"), "arguments") = sent[i].params

(***************************************************************************)
(* C3.  When the status is in the success range and the body has no error  *)
(* field and a result whose content has a first item with a text,          *)
(* call_tool returns exactly that text, whatever the later items are.      *)
(***************************************************************************)
C3_ReturnsFirstText ==
    (SuccessStatus /\ ~HasErrorField /\ HasResultText)
        => /\ last.outcome.kind = "return"
           /\ last.outcome.value = At(Content[1], "text")

C3_Witness ==
    /\ SuccessStatus
    /\ ~HasErrorField
    /\ HasResultText
    /\ Len(Content) = 2
    /\ Content[2] = TextItem(PStr("42 miles"))
    /\ last.outcome = [kind |-> "return", value |-> PStr("3.1")]

(***************************************************************************)
(* C4, as stated.  Every response whose status is outside 200..299 makes   *)
(* call_tool raise the transport error, whatever its body.                 *)
(***************************************************************************)
C4_NonSuccessStatusRaises ==
    (Answered /\ last.resp.status \notin 200..299) => Raised(TransportError)

(***************************************************************************)
(* C4, amended.  Every response whose status is in 400..599 makes          *)
(* call_tool raise the transport error (HTTPError) and return nothing,     *)
(* whatever its body: the status is checked before the body is read.       *)
(***************************************************************************)
C4_ErrorStatusRaises ==
    (Answered /\ last.resp.status \in 400..599)
        => /\ Raised(TransportError)
           /\ last.outcome.exc = "HTTPError"

C4_Witness ==
    /\ Answered
    /\ last.resp.status = 500
    /\ HasResultText
    /\ ~HasErrorField
    /\ Raised(TransportError)

(***************************************************************************)
(* C5, as stated.  When the status is in the success range and the body    *)
(* has an error field, call_tool raises the remote-tool error              *)
(* (RuntimeError), with the error's message in its description.            *)
(***************************************************************************)
C5_ErrorFieldRaisesRemote ==
    (SuccessStatus /\ HasErrorField)
        => /\ Raised(RemoteToolError)
           /\ HasErrorMessage
                 => IsSubstring(At(At(Data, "error"), "message").s, last.outcome.msg)

(***************************************************************************)
(* C5, amended.  When the status is in the success range and the body has  *)
(* an error field that is an object holding a message, call_tool raises    *)
(* the remote-tool error (RuntimeError) with that message in its           *)
(* description, and returns nothing.                                       *)
(***************************************************************************)
C5_ErrorMessageRaisesRemote ==
    (SuccessStatus /\ HasErrorMessage)
        => /\ Raised(RemoteToolError)
           /\ IsSubstring(At(At(Data, "error"), "message").s, last.outcome.msg)

C5_Witness ==
    /\ SuccessStatus
    /\ Data = PDict({ErrorField(ErrorObject("unknown tool"))})
    /\ last.outcome = [kind |-> "raise", exc |-> "RuntimeError",
                       msg |-> "MCP error: unknown tool"]

ModeOfKind(exc) ==
    CASE exc \in ConfigurationError -> "configuration"
      [] exc \in TransportError -> "transport"
      [] exc \in RemoteToolError -> "remote"
      [] exc \in MalformedResponseError -> "malformed"
      [] OTHER -> "unknown"

LastFailure ==
    IF ~last.resp.conn \/ last.resp.status \in 400..599 THEN "transport"
    ELSE IF HasErrorMessage THEN "remote"
    ELSE "malformed"

C8_OneRequestPerInvocation == Len(sent) = invocations

C8_Witness ==
    /\ invocations = 2
    /\ Len(sent) = 2
    /\ \A c \in Callers : pc[c] = "idle"
    /\ Raised({"HTTPError"})

(***************************************************************************)
(* C9.  Every request posted carries Content-Type: application/json and    *)
(* Authorization: Bearer <credential>, the credential being the token      *)
(* given to the constructor when one was given (not None, not empty) and   *)
(* otherwise the environment variable's value when the constructor ran.    *)
(***************************************************************************)
Credential ==
    IF ctor.token \notin {PNone, PStr("")} THEN ctor.token.s ELSE ctor.env.s

C9_RequestHeaders ==
    \A i \in 1..Len(sent) :
        LET h == sent[i].wire.headers IN
        /\ Has(h, "Content-Type")
        /\ At(h, "Content-Type") = PStr("application/json")
        /\ Has(h, "Authorization")
        /\ At(h, "Authorization") = PStr("Bearer " \o Credential)

C9_Witness ==
    /\ Len(sent) >= 1
    /\ ctor.token = PStr("arg-token")
    /\ ctor.env = PStr("env-token")
    /\ At(sent[1].wire.headers, "Authorization") = PStr("Bearer arg-token")

(***************************************************************************)
(* C10.  Once the client is constructed no step changes its url or its     *)
(* headers, whatever the outcome of the calls, and every request is posted *)
(* to the one hardcoded endpoint.                                          *)
(***************************************************************************)
C10_ConfigurationFrozen ==
    [][ /\ modulePc = "ready" => mcp' = mcp
        /\ modulePc' = "ready" => mcp'.url = "https://mcp.mapbox.com/mcp"
        /\ \A i \in 1..Len(sent') : sent'[i].wire.url = "https://mcp.mapbox.com/mcp"
      ]_vars

C10_Witness ==
    /\ invocations = 2
    /\ last.idx = 2
    /\ Raised({"RuntimeError"})
    /\ mcp.url = "https://mcp.mapbox.com/mcp"
    /\ sent[2].wire.url = mcp.url

(***************************************************************************)
(* C11.  Whenever call_tool, called by a tool wrapper, raises, the wrapper *)
(* ends with that same exception and returns nothing: no wrapper catches   *)
(* an error or puts a value in its place.                                  *)
(***************************************************************************)
C11_WrappersPropagate ==
    (returned.outcome.kind # "none" /\ returned.idx = last.idx
        /\ last.outcome.kind = "raise")
        => returned.outcome = last.outcome

C11_Witness ==
    /\ returned.w = [file |-> "crewai", name |-> "get_directions"]
    /\ returned.idx = last.idx
    /\ Raised({"RuntimeError"})
    /\ returned.outcome = [kind |-> "raise", exc |-> "RuntimeError",
                           msg |-> "MCP error: unknown tool"]

(***************************************************************************)
(* C12.  Every request posted carries the id 1, so two calls in flight at  *)
(* the same time carry the same id, whatever they ask for.                 *)
(***************************************************************************)
RequestId(i) == At(sent[i].wire.json, "id")

C12_FixedRequestId ==
    /\ \A i \in 1..Len(sent) : RequestId(i) = PInt(1)
    /\ \A c1, c2 \in Callers :
          (c1 # c2 /\ pc[c1] = "posted" /\ pc[c2] = "posted")
              => RequestId(inflight[c1]) = RequestId(inflight[c2])

C12_Witness ==
    /\ pc["c1"] = "posted"
    /\ pc["c2"] = "posted"
    /\ inflight["c1"] # inflight["c2"]
    /\ sent[inflight["c1"]].tool_name # sent[inflight["c2"]].tool_name
    /\ RequestId(inflight["c1"]) = RequestId(inflight["c2"])

(***************************************************************************)
(* C13, as stated.  When the status is in the success range and the body   *)
(* has both an error field and a result.content[0].text, call_tool raises  *)
(* the remote-tool error (RuntimeError); a value is returned only when the *)
(* body has no error field.                                                *)
(***************************************************************************)
C13_ErrorRaisesRemoteOverResult ==
    /\ (SuccessStatus /\ HasErrorField /\ HasResultText) => Raised(RemoteToolError)
    /\ (Answered /\ last.outcome.kind = "return") => ~HasErrorField

(***************************************************************************)
(* C13, amended.  When the status is in the success range and the body has *)
(* both an error field and a result.content[0].text, call_tool raises and  *)
(* never returns the text; what it raises is the remote-tool error         *)
(* (RuntimeError) when the error field is an object holding a message.  A  *)
(* value is returned only when the body has no error field.                *)
(***************************************************************************)
C13_ErrorTakesPrecedence ==
    /\ (SuccessStatus /\ HasErrorField /\ HasResultText)
          => /\ last.outcome.kind = "raise"
             /\ HasErrorMessage => Raised(RemoteToolError)
    /\ (Answered /\ last.outcome.kind = "return") => ~HasErrorField

C13_Witness ==
    /\ SuccessStatus
    /\ HasErrorMessage
    /\ HasResultText
    /\ last.outcome = [kind |-> "raise", exc |-> "RuntimeError",
                       msg |-> "MCP error: unknown tool"]

====
